---------------------------- MODULE Spec2Model ----------------------------
(***************************************************************************)
(* Model of src/app.py (Dubizzle Arbitrage dashboard).                     *)
(*                                                                         *)
(* Text is modelled as a sequence of one-character strings, so that        *)
(* stripping, splitting and matching are computed as the code computes     *)
(* them.  A pandas DataFrame is a sequence of records; a missing column    *)
(* is a missing record field.  The coroutine scrape_dubizzle is a          *)
(* sequential process whose position is pc; every await is one action.    *)
(***************************************************************************)
EXTENDS Integers, Sequences, FiniteSets, TLC

VARIABLES
    pc,             \* position of the run inside scrape_dubizzle / of the harness
    debug_mode,     \* argument debug_mode
    proxy_list,     \* argument proxy_list (None or a list of raw strings)
    proxy_config,   \* local proxy_config
    launch_proxy,   \* the proxy= argument chromium.launch was called with
    browser,        \* "none" | "open" | "closed" (browser.close() executed)
    playwright,     \* "none" | "started" | "stopped" (async with block)
    status_code,    \* local status_code
    screenshot_data,\* local screenshot_data
    page_content,   \* local page_content (parsed markup)
    results,        \* local results
    ret,            \* value returned to the caller, or NoReturn
    events,         \* trace of the browser-side effects of the run
    debug_logs,     \* st.session_state.debug_logs
    now,            \* datetime.now() as a logical clock
    added,          \* history: entries passed to the buffer since the last clear
    df,             \* argument of calculate_arbitrage
    scored,         \* value calculate_arbitrage returned
    html_sample,    \* local html_sample
    raw             \* argument proxy_str of parse_proxy

vars == <<pc, debug_mode, proxy_list, proxy_config, launch_proxy, browser,
          playwright, status_code, screenshot_data, page_content, results,
          ret, events, debug_logs, now, added, df, scored, html_sample,
          raw>>

(***************************************************************************)
(* Generic helpers on sequences                                            *)
(***************************************************************************)
None == [kind |-> "None"]

Last(s) == s[Len(s)]

\* s[from..to] as a sequence (empty when from > to)
Slice(s, from, to) == IF from > to THEN <<>> ELSE SubSeq(s, from, to)

\* first index i >= from with s[i] = c, or 0 when there is none (str.find)
IndexFrom(s, c, from) ==
    LET hits == {i \in from..Len(s) : s[i] = c}
    IN  IF hits = {} THEN 0 ELSE CHOOSE i \in hits : \A j \in hits : i <= j

StartsWith(s, pre) ==
    /\ Len(s) >= Len(pre)
    /\ SubSeq(s, 1, Len(pre)) = pre

\* the needle occurs somewhere in s ("needle" in s)
Contains(s, needle) ==
    \E i \in 1..(Len(s) - Len(needle) + 1) :
        SubSeq(s, i, i + Len(needle) - 1) = needle

Whitespace == {" ", "\t", "\n", "\r"}

Digits == {"0", "1", "2", "3", "4", "5", "6", "7", "8", "9"}

DigitValue(c) ==
    CASE c = "0" -> 0 [] c = "1" -> 1 [] c = "2" -> 2 [] c = "3" -> 3
      [] c = "4" -> 4 [] c = "5" -> 5 [] c = "6" -> 6 [] c = "7" -> 7
      [] c = "8" -> 8 [] c = "9" -> 9

\* str.strip()
RECURSIVE Strip(_)
Strip(s) ==
    IF s = <<>> THEN s
    ELSE IF Head(s) \in Whitespace THEN Strip(Tail(s))
    ELSE IF Last(s) \in Whitespace THEN Strip(SubSeq(s, 1, Len(s) - 1))
    ELSE s

\* str.split(sep): always at least one field
RECURSIVE Split(_, _)
Split(s, sep) ==
    LET i == IndexFrom(s, sep, 1)
    IN  IF i = 0 THEN <<s>>
        ELSE <<Slice(s, 1, i - 1)>> \o Split(Slice(s, i + 1, Len(s)), sep)

AllDigits(s) == \A i \in 1..Len(s) : s[i] \in Digits

HttpPrefix == <<"h", "t", "t", "p", ":", "/", "/">>
HttpsPrefix == <<"h", "t", "t", "p", "s", ":", "/", "/">>
SchemeSep == <<":", "/", "/">>


(***************************************************************************)
(* parse_proxy (src/app.py:42-81)                                          *)
(***************************************************************************)
NoMatch == [matched |-> FALSE]

\* (?P<host>[^:]+):(?P<port>\d+)$ applied to r
MatchHostPort(r) ==
    LET i == IndexFrom(r, ":", 1)
        port == Slice(r, i + 1, Len(r))
    IN  IF i > 1 /\ port # <<>> /\ AllDigits(port)
        THEN [matched |-> TRUE, user |-> <<>>, pass |-> <<>>,
              host |-> Slice(r, 1, i - 1), port |-> port]
        ELSE NoMatch

\* (?P<user>[^:]+):(?P<pass>[^@]+)@(?P<host>[^:]+):(?P<port>\d+)$ applied to r
MatchCredentials(r) ==
    LET i == IndexFrom(r, ":", 1)
        j == IF i = 0 THEN 0 ELSE IndexFrom(r, "@", i + 1)
        k == IF j = 0 THEN 0 ELSE IndexFrom(r, ":", j + 1)
        port == Slice(r, k + 1, Len(r))
    IN  IF i > 1 /\ j > i + 1 /\ k > j + 1 /\ port # <<>> /\ AllDigits(port)
        THEN [matched |-> TRUE, user |-> Slice(r, 1, i - 1),
              pass |-> Slice(r, i + 1, j - 1),
              host |-> Slice(r, j + 1, k - 1), port |-> port]
        ELSE NoMatch

\* the two optional-group alternatives in the order the regex engine tries them
MatchRest(r) ==
    IF MatchCredentials(r).matched THEN MatchCredentials(r) ELSE MatchHostPort(r)

\* re.match(regex, proxy_str): the scheme group is tried first, then skipped
RegexMatch(s) ==
    LET rest == IF StartsWith(s, HttpsPrefix) THEN Slice(s, 9, Len(s))
                ELSE IF StartsWith(s, HttpPrefix) THEN Slice(s, 8, Len(s))
                ELSE s
    IN  IF rest # s /\ MatchRest(rest).matched THEN MatchRest(rest)
        ELSE MatchRest(s)

\* a mutation: the regex is tried before the four-field shape
parse_proxy_regex_first(proxy_str) ==
    LET s == Strip(proxy_str)
        parts == Split(s, ":")
        d == RegexMatch(s)
    IN  IF s = <<>> THEN None
        ELSE IF d.matched
        THEN IF d.user # <<>> /\ d.pass # <<>>
             THEN [server |-> HttpPrefix \o d.host \o <<":">> \o d.port,
                   username |-> d.user, password |-> d.pass]
             ELSE [server |-> HttpPrefix \o d.host \o <<":">> \o d.port]
        ELSE IF Len(parts) = 4
        THEN [server |-> HttpPrefix \o parts[1] \o <<":">> \o parts[2],
              username |-> parts[3], password |-> parts[4]]
        ELSE IF Contains(s, <<":">>)
        THEN [server |-> IF Contains(s, SchemeSep) THEN s ELSE HttpPrefix \o s]
        ELSE None

\* a mutation: no fallback, a string the regex refuses gives None
parse_proxy_no_fallback(proxy_str) ==
    LET s == Strip(proxy_str)
        parts == Split(s, ":")
        d == RegexMatch(s)
    IN  IF s = <<>> THEN None
        ELSE IF Len(parts) = 4
        THEN [server |-> HttpPrefix \o parts[1] \o <<":">> \o parts[2],
              username |-> parts[3], password |-> parts[4]]
        ELSE IF d.matched
        THEN IF d.user # <<>> /\ d.pass # <<>>
             THEN [server |-> HttpPrefix \o d.host \o <<":">> \o d.port,
                   username |-> d.user, password |-> d.pass]
             ELSE [server |-> HttpPrefix \o d.host \o <<":">> \o d.port]
        ELSE None

parse_proxy(proxy_str) ==
    LET s == Strip(proxy_str)
        parts == Split(s, ":")
        d == RegexMatch(s)
    IN  IF s = <<>> THEN None
        ELSE IF Len(parts) = 4
        THEN [server |-> HttpPrefix \o parts[1] \o <<":">> \o parts[2],
              username |-> parts[3], password |-> parts[4]]
        ELSE IF d.matched
        THEN IF d.user # <<>> /\ d.pass # <<>>
             THEN [server |-> HttpPrefix \o d.host \o <<":">> \o d.port,
                   username |-> d.user, password |-> d.pass]
             ELSE [server |-> HttpPrefix \o d.host \o <<":">> \o d.port]
        ELSE IF Contains(s, <<":">>)
        THEN [server |-> IF Contains(s, SchemeSep) THEN s ELSE HttpPrefix \o s]
        ELSE None


(***************************************************************************)
(* add_log (src/app.py:32-39).  A log entry is <<timestamp, text, number>>; *)
(* the number is the value formatted into the text (0 when there is none). *)
(* datetime.now() is read as a logical clock that advances with each call. *)
(***************************************************************************)
LogCapacity == 30

\* a mutation: the newest entry is evicted instead of the oldest
add_log_pop_last(logs, entry) ==
    LET appended == Append(logs, entry)
    IN  IF Len(appended) > LogCapacity
        THEN SubSeq(appended, 1, Len(appended) - 1)
        ELSE appended

add_log(logs, entry) ==
    LET appended == Append(logs, entry)
    IN  IF Len(appended) > LogCapacity THEN Tail(appended) ELSE appended

\* the entries add_log builds for the messages msgs, the first at time t
RECURSIVE Stamp(_, _)
Stamp(msgs, t) ==
    IF msgs = <<>> THEN <<>>
    ELSE <<<<t, Head(msgs)[1], Head(msgs)[2]>>>> \o Stamp(Tail(msgs), t + 1)

RECURSIVE AddAll(_, _)
AddAll(logs, entries) ==
    IF entries = <<>> THEN logs
    ELSE AddAll(add_log(logs, Head(entries)), Tail(entries))

\* consecutive add_log calls, one per message of msgs
Log(msgs) ==
    /\ debug_logs' = AddAll(debug_logs, Stamp(msgs, now))
    /\ added' = added \o Stamp(msgs, now)
    /\ now' = now + Len(msgs)


(***************************************************************************)
(* Markup and extraction (src/app.py:173-202).  A page is the challenge    *)
(* signature its text contains and the elements of its document, in        *)
(* document order.  An element carries what the selectors look at:         *)
(*   card     "testid" for div[data-testid=listing-card], "class" for a    *)
(*            div recognisable only by a class-name substring              *)
(*   title    the h2[data-testid=listing-title] below it, when has_title   *)
(*   price    the div[data-testid=listing-price] below it, when has_price  *)
(*   anchor   "none" (no <a>), "nohref" (<a> without href), "href"         *)
(*   location the span[data-testid=listing-location], when has_location    *)
(***************************************************************************)
SearchQuery == "iPhone 15 Pro"

Origin == <<"h", "t", "t", "p", "s", ":", "/", "/", "u", "a", "e", ".",
            "d", "u", "b", "i", "z", "z", "l", "e", ".", "c", "o", "m">>

DefaultLocation == <<"U", "A", "E">>

\* str.isdigit: the decimal digits and digit-like characters such as
\* SUPERSCRIPT TWO (written "^2"), which int() refuses
IsDigitChar(c) == c \in Digits \cup {"^2"}

\* ''.join(filter(str.isdigit, text))
RECURSIVE FilterDigits(_)
FilterDigits(text) ==
    IF text = <<>> THEN <<>>
    ELSE (IF IsDigitChar(Head(text)) THEN <<Head(text)>> ELSE <<>>)
         \o FilterDigits(Tail(text))

\* int(d) raises ValueError on the empty string and on a non-decimal digit
IntRaises(d) == d = <<>> \/ ~AllDigits(d)

\* int(d) for a non-empty string of decimal digits
RECURSIVE IntOf(_)
IntOf(d) ==
    IF d = <<>> THEN 0
    ELSE IntOf(SubSeq(d, 1, Len(d) - 1)) * 10 + DigitValue(Last(d))

\* a mutation: a price text without digits gets the price 0
price_val_defaulted(text) ==
    LET d == FilterDigits(Strip(text))
    IN  IF IntRaises(d) THEN [raised |-> FALSE, value |-> 0]
        ELSE [raised |-> FALSE, value |-> IntOf(d)]

\* line 191: int(''.join(filter(str.isdigit, price_elem.text.strip())))
price_val(text) ==
    LET d == FilterDigits(Strip(text))
    IN  IF IntRaises(d) THEN [raised |-> TRUE, value |-> 0]
        ELSE [raised |-> FALSE, value |-> IntOf(d)]

\* lines 192, 200
Link(item) ==
    LET raw_link == IF item.anchor = "none" THEN <<"#">> ELSE item.href
    IN  IF StartsWith(raw_link, <<"h", "t", "t", "p">>) THEN raw_link
        ELSE Origin \o raw_link

\* the body of the loop, lines 185-202: the records one candidate appends
ExtractItem(item, t) ==
    IF item.has_title /\ item.has_price
    THEN IF price_val(item.price).raised \/ item.anchor = "nohref"
         THEN <<>>
         ELSE <<[Timestamp |-> t,
                 Title |-> Strip(item.title),
                 Model |-> SearchQuery,
                 Price |-> price_val(item.price).value,
                 Location |-> IF item.has_location THEN Strip(item.location)
                              ELSE DefaultLocation,
                 Link |-> Link(item)]>>
    ELSE <<>>

\* line 180: soup.find_all('div', {'data-testid': 'listing-card'})
find_all(page) == SelectSeq(page.elems, LAMBDA e : e.card = "testid")

RECURSIVE ExtractAll(_, _)
ExtractAll(listings, t) ==
    IF listings = <<>> THEN <<>>
    ELSE ExtractItem(Head(listings), t) \o ExtractAll(Tail(listings), t)

\* lines 179-202
Extract(page, t) == ExtractAll(find_all(page), t)

\* line 174
ChallengeDetected(page) == page.signature \in {"Incapsula", "incident_id"}


(***************************************************************************)
(* Inputs of a run: what main passes (src/app.py:237-238, 256) and what    *)
(* the network answers.                                                    *)
(***************************************************************************)
ProxyHostPort == <<"h", ":", "8", "0">>
ProxyFourFields == <<"h", ":", "8", "0", ":", "u", ":", "p">>
ProxyUserAtHost == <<"u", ":", "p", "@", "h", ":", "8", "0">>
ProxyMalformed == <<"b", "a", "d">>

\* proxy_list; main's None (proxies disabled) and [] are both falsy at line
\* 114, the only place the list is tested, and are both written <<>>
ProxyLists ==
    { <<>>,
      <<ProxyHostPort>>,
      <<ProxyFourFields>>,
      <<ProxyMalformed>>,
      <<ProxyMalformed, ProxyUserAtHost>> }

\* response.status of a navigation
Statuses == {200, 403, 407}

Elem(card, has_title, has_price, price, anchor, href) ==
    [card |-> card, has_title |-> has_title, title |-> <<" ", "T">>,
     has_price |-> has_price, price |-> price, anchor |-> anchor,
     href |-> href, has_location |-> FALSE, location |-> <<>>]

HrefRelative == <<"/", "a">>
HrefAbsolute == <<"h", "t", "t", "p", ":", "/", "/", "x">>

CardPriced(price) == Elem("testid", TRUE, TRUE, price, "href", HrefRelative)
ClassCardPriced(price) == Elem("class", TRUE, TRUE, price, "href", HrefRelative)
CardNoPrice == Elem("testid", TRUE, FALSE, <<>>, "href", HrefRelative)

PageOf(signature, elems) == [signature |-> signature, elems |-> elems]

\* the markups page.content() returns in the runs explored
Pages ==
    { PageOf("none", <<>>),
      PageOf("Incapsula", <<>>),
      PageOf("incident_id", <<CardPriced(<<"5", "0", "0">>)>>),
      PageOf("none", <<CardPriced(<<"5", "0", "0">>), CardNoPrice,
                       CardPriced(<<"A", "E", "D", " ", "9", "0">>)>>),
      PageOf("none", <<ClassCardPriced(<<"5", "0", "0">>),
                       ClassCardPriced(<<"7", "0">>)>>) }

NoPage == PageOf("none", <<>>)

NoReturn == [kind |-> "NoReturn"]

(***************************************************************************)
(* scrape_dubizzle (src/app.py:102-210), one action per await              *)
(***************************************************************************)
logVars == <<debug_logs, now, added>>
scoreVars == <<df, scored, raw>>
argVars == <<debug_mode, proxy_list, proxy_config>>

\* the session before a run: nothing launched, the log empty (lines 32-33)
IdleSession ==
    /\ pc = "idle"
    /\ debug_mode = FALSE
    /\ proxy_list = <<>>
    /\ proxy_config = None
    /\ launch_proxy = None
    /\ browser = "none"
    /\ playwright = "none"
    /\ status_code = 0
    /\ screenshot_data = "None"
    /\ page_content = NoPage
    /\ results = <<>>
    /\ ret = NoReturn
    /\ events = <<>>
    /\ debug_logs = <<>>
    /\ now = 0
    /\ added = <<>>
    /\ html_sample = ""

Init ==
    /\ IdleSession
    /\ df = <<>>
    /\ scored = <<>>
    /\ raw = <<>>

\* the proxy lines 114-120 log for the parsed descriptor
ProxyLogs(cfg) ==
    IF cfg = None THEN <<>>
    ELSE <<<<"Using Proxy Server", 0>>>>
         \o (IF "username" \in DOMAIN cfg
             THEN <<<<"Proxy credentials applied successfully.", 0>>>>
             ELSE <<>>)

\* line 115: the indices random.choice(proxy_list) can return
Draw(plist) == 1..Len(plist)

\* lines 103-120: the call, up to the first await
Begin ==
    /\ pc = "idle"
    /\ \E plist \in ProxyLists, dbg \in BOOLEAN :
        /\ proxy_list' = plist
        /\ debug_mode' = dbg
        /\ IF plist # <<>>
           THEN \E i \in Draw(plist) :
                    /\ proxy_config' = parse_proxy(plist[i])
                    /\ Log(<<<<"Starting Scrape", 0>>>>
                           \o ProxyLogs(parse_proxy(plist[i])))
           ELSE /\ proxy_config' = None
                /\ Log(<<<<"Starting Scrape", 0>>>>)
    /\ pc' = "launch"
    /\ UNCHANGED <<launch_proxy, browser, playwright, status_code,
                   screenshot_data, page_content, results, ret, events,
                   html_sample, scoreVars>>

\* an exception leaves the async with block (line 122) and the function
Propagate(at) ==
    /\ events' = events \o <<at, "raise">>
    /\ playwright' = "stopped"
    /\ ret' = [kind |-> "Raised"]
    /\ pc' = "raised"

\* lines 122-132: async_playwright() and chromium.launch
Launch ==
    /\ pc = "launch"
    /\ launch_proxy' = proxy_config
    /\ \/ /\ events' = Append(events, "launch")
          /\ browser' = "open"
          /\ playwright' = "started"
          /\ pc' = "new_context"
          /\ UNCHANGED ret
       \/ /\ Propagate("launch")
          /\ UNCHANGED browser
    /\ UNCHANGED <<argVars, status_code, screenshot_data, page_content,
                   results, html_sample, logVars, scoreVars>>

\* the three awaits between the launch and the try block: an exception in
\* any of them is outside try/finally
Setup(at, next) ==
    /\ pc = at
    /\ \/ /\ events' = Append(events, at)
          /\ pc' = next
          /\ UNCHANGED <<playwright, ret>>
       \/ Propagate(at)
    /\ UNCHANGED <<argVars, launch_proxy, browser, status_code,
                   screenshot_data, page_content, results, html_sample,
                   logVars, scoreVars>>

\* lines 139-143
NewContext == Setup("new_context", "new_page")

\* line 145
NewPage == Setup("new_page", "add_init_script")

\* line 146
AddInitScript == Setup("add_init_script", "goto_base")


\* line 204-205: the handler of the try block, then the finally clause
Caught(at, msgs) ==
    /\ events' = events \o <<at, "raise">>
    /\ Log(msgs \o <<<<"ERROR", 0>>>>)
    /\ pc' = "finally"

\* a mutation: the 407 test of the warm-up response is missing
ProxyAuthFailed_never(status) == FALSE

\* line 153
ProxyAuthFailed(status) == status = 407

\* line 156
Return407 ==
    [kind |-> "Return", records |-> <<>>, screenshot |-> "None",
     html_sample |-> "407 Error", status |-> 407, proxy |-> proxy_config]

\* lines 149-156: the warm-up navigation
GotoBase ==
    /\ pc = "goto_base"
    /\ \/ /\ Caught("goto_base",
                    <<<<"Connecting via proxy and setting cookies...", 0>>>>)
          /\ UNCHANGED ret
       \/ \E status \in Statuses :
            /\ events' = Append(events, "goto_base")
            /\ IF ProxyAuthFailed(status)
               THEN /\ Log(<<<<"Connecting via proxy and setting cookies...", 0>>,
                             <<"Initial Connection Status", status>>,
                             <<"CRITICAL: Proxy Authentication Required (407).", 0>>>>)
                    /\ ret' = Return407
                    /\ pc' = "finally"
               ELSE /\ Log(<<<<"Connecting via proxy and setting cookies...", 0>>,
                             <<"Initial Connection Status", status>>>>)
                    /\ pc' = "sleep"
                    /\ UNCHANGED ret
    /\ UNCHANGED <<argVars, launch_proxy, browser, playwright, status_code,
                   screenshot_data, page_content, results, html_sample,
                   scoreVars>>

\* line 158: asyncio.sleep(random.uniform(1, 3))
Sleep ==
    /\ pc = "sleep"
    /\ events' = Append(events, "sleep")
    /\ pc' = "goto_search"
    /\ UNCHANGED <<argVars, launch_proxy, browser, playwright, status_code,
                   screenshot_data, page_content, results, ret, html_sample,
                   logVars, scoreVars>>

\* lines 160-163: the query navigation
GotoSearch ==
    /\ pc = "goto_search"
    /\ \/ /\ Caught("goto_search", <<<<"Fetching search results...", 0>>>>)
          /\ UNCHANGED status_code
       \/ \E status \in Statuses :
            /\ events' = Append(events, "goto_search")
            /\ status_code' = status
            /\ Log(<<<<"Fetching search results...", 0>>,
                     <<"Search Results Status", status>>>>)
            /\ pc' = IF debug_mode THEN "screenshot" ELSE "content"
    /\ UNCHANGED <<argVars, launch_proxy, browser, playwright,
                   screenshot_data, page_content, results, ret, html_sample,
                   scoreVars>>

\* lines 165-171: the screenshot has a try block of its own
Screenshot ==
    /\ pc = "screenshot"
    /\ events' = Append(events, "screenshot")
    /\ \/ /\ screenshot_data' = "jpeg"
          /\ Log(<<<<"Capturing visual state...", 0>>,
                   <<"Screenshot saved.", 0>>>>)
       \/ /\ Log(<<<<"Capturing visual state...", 0>>,
                   <<"Screenshot skipped", 0>>>>)
          /\ UNCHANGED screenshot_data
    /\ pc' = "content"
    /\ UNCHANGED <<argVars, launch_proxy, browser, playwright, status_code,
                   page_content, results, ret, html_sample, scoreVars>>

\* line 173: page.content()
Content ==
    /\ pc = "content"
    /\ \/ /\ Caught("content", <<>>)
          /\ UNCHANGED page_content
       \/ \E page \in Pages :
            /\ events' = Append(events, "content")
            /\ page_content' = page
            /\ pc' = "extract"
            /\ UNCHANGED logVars
    /\ UNCHANGED <<argVars, launch_proxy, browser, playwright, status_code,
                   screenshot_data, results, ret, html_sample, scoreVars>>

\* lines 174-175
ChallengeLogs(page) ==
    IF ChallengeDetected(page)
    THEN <<<<"Firewall Block detected in HTML content.", 0>>>>
    ELSE <<>>

\* a mutation: an exception of the second candidate ends the loop and
\* leaves the records of the first in results
ExtractStep_partial ==
    /\ pc = "extract"
    /\ html_sample' = "page_content[:1000]"
    /\ \/ /\ Caught("extract", ChallengeLogs(page_content))
          /\ results' = IF find_all(page_content) = <<>> THEN <<>>
                        ELSE ExtractItem(Head(find_all(page_content)), now)
       \/ /\ events' = Append(events, "extract")
          /\ results' = Extract(page_content, now)
          /\ Log(ChallengeLogs(page_content)
                 \o <<<<"Parsed items from the page", Len(find_all(page_content))>>>>)
          /\ pc' = "finally"
    /\ UNCHANGED <<argVars, launch_proxy, browser, playwright, status_code,
                   screenshot_data, page_content, ret, scoreVars>>

\* lines 174-202: the rest of the try block runs without an await; the
\* parser (line 179) may raise before any candidate is looked at
ExtractStep ==
    /\ pc = "extract"
    /\ html_sample' = "page_content[:1000]"
    /\ \/ /\ Caught("extract", ChallengeLogs(page_content))
          /\ UNCHANGED results
       \/ /\ events' = Append(events, "extract")
          /\ results' = Extract(page_content, now)
          /\ Log(ChallengeLogs(page_content)
                 \o <<<<"Parsed items from the page", Len(find_all(page_content))>>>>)
          /\ pc' = "finally"
    /\ UNCHANGED <<argVars, launch_proxy, browser, playwright, status_code,
                   screenshot_data, page_content, ret, scoreVars>>

\* a mutation: a run that caught an exception reports the initial status
ReturnValue_status_reset ==
    [kind |-> "Return", records |-> results, screenshot |-> screenshot_data,
     html_sample |-> html_sample,
     status |-> IF \E i \in 1..Len(events) : events[i] = "raise"
                THEN 0 ELSE status_code,
     proxy |-> proxy_config]

\* line 210
ReturnValue ==
    [kind |-> "Return", records |-> results, screenshot |-> screenshot_data,
     html_sample |-> html_sample, status |-> status_code,
     proxy |-> proxy_config]

\* lines 206-210: finally, the end of the async with block, the return
Finally ==
    /\ pc = "finally"
    /\ browser' = "closed"
    /\ events' = Append(events, "close")
    /\ Log(<<<<"Browser closed.", 0>>>>)
    /\ playwright' = "stopped"
    /\ ret' = IF ret = NoReturn THEN ReturnValue ELSE ret
    /\ pc' = "done"
    /\ UNCHANGED <<argVars, launch_proxy, status_code, screenshot_data,
                   page_content, results, html_sample, scoreVars>>

Next ==
    \/ Begin
    \/ Launch
    \/ NewContext
    \/ NewPage
    \/ AddInitScript
    \/ GotoBase
    \/ Sleep
    \/ GotoSearch
    \/ Screenshot
    \/ Content
    \/ ExtractStep
    \/ Finally

Spec == Init /\ [][Next]_vars


(***************************************************************************)
(* Properties of a run                                                     *)
(***************************************************************************)
Has(e) == \E i \in 1..Len(events) : events[i] = e

\* position of the first event e, 0 when there is none
EventIndex(e) ==
    IF Has(e) THEN CHOOSE i \in 1..Len(events) :
                       events[i] = e /\ \A j \in 1..(i - 1) : events[j] # e
    ELSE 0

Ended == pc \in {"done", "raised"}

Logged(text) == \E i \in 1..Len(debug_logs) : debug_logs[i][2] = text

WarmUpStatus(status) ==
    \E i \in 1..Len(added) :
        added[i][2] = "Initial Connection Status" /\ added[i][3] = status

WellFormed(plist) == {i \in 1..Len(plist) : parse_proxy(plist[i]) # None}

\* C1: in every run in which the launch succeeded, browser.close() has been
\* executed when the run ends, whatever the exit path, the exceptions of
\* new_context, new_page and add_init_script included.
C1_CloseOnEveryExit ==
    (Ended /\ browser # "none") => browser = "closed"

\* C2: no failure of a stage leaves scrape_dubizzle as an exception; a run in
\* which a stage failed returns an empty record sequence and its log holds an
\* entry recording the failure.
C2_NoFailurePropagates ==
    Ended =>
        /\ pc = "done"
        /\ ret.kind = "Return"
        /\ Has("raise") => (ret.records = <<>> /\ Logged("ERROR"))

\* C3: when the warm-up navigation or the query navigation answers 407 the
\* run fails: nothing is navigated or extracted afterwards, and the run
\* returns no record and httpStatus 407 without raising.
C3_AnyNavigation407Aborts ==
    (WarmUpStatus(407) \/ status_code = 407) =>
        /\ pc # "raised"
        /\ WarmUpStatus(407) => ~Has("goto_search")
        /\ ~Has("content") /\ ~Has("extract")
        /\ pc = "done" => (ret.records = <<>> /\ ret.status = 407)

\* C4: when the proxy list has a well-formed entry, the browser is launched
\* with the descriptor of a well-formed entry, never without a proxy.
C4_MalformedExcludedFromDraw ==
    (pc \notin {"idle", "launch"} /\ WellFormed(proxy_list) # {}) =>
        /\ launch_proxy # None
        /\ \E i \in WellFormed(proxy_list) :
               launch_proxy = parse_proxy(proxy_list[i])

\* C5: the final markup is captured after a dwell pause exactly when it
\* carries a challenge signature: a pause lies between the query navigation
\* and the capture when the signature is there, none when it is not.
C5_ChallengeDwell ==
    Has("content") =>
        (ChallengeDetected(page_content) <=>
            \E i \in (EventIndex("goto_search") + 1)..(EventIndex("content") - 1) :
                events[i] = "sleep")


(***************************************************************************)
(* The log buffer over a session: any sequence of add_log calls and of     *)
(* "Clear History" clicks (src/app.py:35-39, 244-246).                     *)
(***************************************************************************)
MaxLogCalls == 33

runVars == <<pc, argVars, launch_proxy, browser, playwright, status_code,
             screenshot_data, page_content, results, ret, events,
             html_sample>>

AddLogCall ==
    /\ now < MaxLogCalls
    /\ Log(<<<<"msg", 0>>>>)
    /\ UNCHANGED <<runVars, scoreVars>>

\* lines 244-245: st.session_state.debug_logs = []
ClearHistory ==
    /\ debug_logs' = <<>>
    /\ added' = <<>>
    /\ UNCHANGED <<now, runVars, scoreVars>>

NextLog ==
    \/ AddLogCall
    \/ ClearHistory

SpecLog == Init /\ [][NextLog]_vars

\* C6: the buffer never holds more than 30 entries, and it holds exactly the
\* last min(n, 30) of the n entries added since the last clear, in the order
\* they were added.
C6_LogHoldsMostRecent ==
    /\ Len(debug_logs) <= 30
    /\ LET n == Len(added)
           kept == IF n < 30 THEN n ELSE 30
       IN  /\ Len(debug_logs) = kept
           /\ \A i \in 1..kept : debug_logs[i] = added[n - kept + i]

\* more than 30 entries were added since the last clear, after an earlier clear
C6_Witness ==
    /\ Len(added) = 32
    /\ Len(debug_logs) = 30
    /\ added[1][1] > 0


(***************************************************************************)
(* calculate_arbitrage (src/app.py:213-221).  A float is modelled as the   *)
(* exact fraction <<numerator, denominator>> in lowest terms, denominator  *)
(* positive: rounding is not modelled.                                     *)
(***************************************************************************)
SpamFloor == 100

Abs(n) == IF n < 0 THEN -n ELSE n

RECURSIVE Gcd(_, _)
Gcd(a, b) == IF b = 0 THEN a ELSE Gcd(b, a % b)

\* n / d for d > 0
Frac(n, d) ==
    LET g == Gcd(Abs(n), d)
    IN  <<n \div g, d \div g>>

Zero == <<0, 1>>

Prices(batch) == [i \in 1..Len(batch) |-> batch[i].Price]

\* Series.median(): the middle of the sorted values, or the mean of the two
\* middle ones
Median(prices) ==
    LET sorted == SortSeq(prices, LAMBDA a, b : a < b)
        n == Len(sorted)
    IN  IF n % 2 = 1 THEN Frac(sorted[(n + 1) \div 2], 1)
        ELSE Frac(sorted[n \div 2] + sorted[n \div 2 + 1], 2)

\* lines 218-220: the three columns added to a row
Scored(row, median) ==
    LET profit == Frac(median[1] - row.Price * median[2], median[2])
    IN  row @@ ("Market_Median" :> median
                @@ "Profit_AED" :> profit
                @@ "ROI_%" :> Frac(profit[1] * 100, profit[2] * row.Price))

\* a mutation: the filtered (empty) frame is returned when nothing survives
calculate_arbitrage_returns_filtered(batch) ==
    LET filtered_df == SelectSeq(batch, LAMBDA row : row.Price > SpamFloor)
    IN  IF batch = <<>> THEN batch
        ELSE IF filtered_df = <<>> THEN filtered_df
        ELSE [i \in 1..Len(filtered_df) |->
                 Scored(filtered_df[i], Median(Prices(filtered_df)))]

\* a mutation: the median is taken over the unfiltered batch
calculate_arbitrage_median_of_all(batch) ==
    LET filtered_df == SelectSeq(batch, LAMBDA row : row.Price > SpamFloor)
    IN  IF batch = <<>> THEN batch
        ELSE IF filtered_df = <<>> THEN batch
        ELSE [i \in 1..Len(filtered_df) |->
                 Scored(filtered_df[i], Median(Prices(batch)))]

calculate_arbitrage(batch) ==
    LET filtered_df == SelectSeq(batch, LAMBDA row : row.Price > SpamFloor)
    IN  IF batch = <<>> THEN batch
        ELSE IF filtered_df = <<>> THEN batch
        ELSE [i \in 1..Len(filtered_df) |->
                 Scored(filtered_df[i], Median(Prices(filtered_df)))]

\* a row of the frame scrape_dubizzle returns (lines 194-201)
Row(title, price) ==
    [Timestamp |-> 0, Title |-> title, Model |-> SearchQuery, Price |-> price,
     Location |-> DefaultLocation, Link |-> Origin \o HrefRelative]

MaxBatch == 3

PricePool == {0, 100, 101, 500, 1000}

RowPool == {Row(<<"T">>, p) : p \in PricePool} \cup {Row(<<"U">>, 100)}

Batches == UNION {[1..n -> RowPool] : n \in 0..MaxBatch}

InitScore ==
    /\ IdleSession
    /\ df \in Batches
    /\ scored = <<>>
    /\ raw = <<>>

\* line 269: df = calculate_arbitrage(df_raw)
Score ==
    /\ pc = "idle"
    /\ scored' = calculate_arbitrage(df)
    /\ pc' = "scored"
    /\ UNCHANGED <<argVars, launch_proxy, browser, playwright, status_code,
                   screenshot_data, page_content, results, ret, events,
                   html_sample, logVars, df, raw>>

NextScore == Score

SpecScore == InitScore /\ [][NextScore]_vars

SamePrice(batch) == \A i, j \in 1..Len(batch) : batch[i].Price = batch[j].Price

ScoreColumns == {"Market_Median", "Profit_AED", "ROI_%"}

\* C7: a batch whose records all have one price comes back whole, every
\* record with an ROI of 0 and with a z-score column equal to 0.
C7_SamePriceZeroScores ==
    (pc = "scored" /\ df # <<>> /\ SamePrice(df)) =>
        /\ Len(scored) = Len(df)
        /\ \A i \in 1..Len(scored) :
            /\ "ROI_%" \in DOMAIN scored[i]
            /\ scored[i]["ROI_%"] = <<0, 1>>
            /\ \E column \in DOMAIN scored[i] \ (DOMAIN df[i] \cup ScoreColumns) :
                   scored[i][column] = <<0, 1>>

\* C8: a non-empty batch whose prices are all at or below 100 is returned as
\* it was given: the same records in the same order, no column added.
C8_AllSpamReturnedUnchanged ==
    (pc = "scored" /\ df # <<>> /\ \A i \in 1..Len(df) : df[i].Price <= 100) =>
        /\ Len(scored) = Len(df)
        /\ \A i \in 1..Len(df) :
               /\ DOMAIN scored[i] = DOMAIN df[i]
               /\ \A column \in DOMAIN df[i] : scored[i][column] = df[i][column]

\* a batch of several different records, all at or below the floor, was scored
C8_Witness ==
    /\ pc = "scored"
    /\ Len(df) = 3
    /\ df[1] # df[2]
    /\ \A i \in 1..Len(df) : df[i].Price <= 100
    /\ Len(scored) = 3


(***************************************************************************)
(* Extraction over a wider range of markup: the run stands right after     *)
(* page.content() returned (line 173) and goes on as in Spec.              *)
(***************************************************************************)
MaxCards == 2

MaxPriceLen == 2

PriceAlphabet == {"0", "7", ","}

PriceTexts == UNION {[1..n -> PriceAlphabet] : n \in 0..MaxPriceLen}

ElemPool ==
    {CardPriced(text) : text \in PriceTexts}
    \cup { CardPriced(<<" ", "7", "0", " ">>),
           CardPriced(<<"7", "^2">>),
           CardNoPrice,
           Elem("testid", FALSE, TRUE, <<"7">>, "href", HrefRelative),
           Elem("testid", TRUE, TRUE, <<"7">>, "nohref", <<>>),
           Elem("testid", TRUE, TRUE, <<"7">>, "none", <<>>),
           Elem("testid", TRUE, TRUE, <<"7">>, "href", HrefAbsolute),
           ClassCardPriced(<<"7">>),
           ClassCardPriced(<<"7", "0">>) }

ExtractPages ==
    {PageOf("none", elems) :
        elems \in UNION {[1..n -> ElemPool] : n \in 0..MaxCards}}

\* the messages of a run that got to line 173 with debug_mode off, no proxy
LogsUpToContent ==
    Stamp(<< <<"Starting Scrape", 0>>,
             <<"Connecting via proxy and setting cookies...", 0>>,
             <<"Initial Connection Status", 200>>,
             <<"Fetching search results...", 0>>,
             <<"Search Results Status", 200>> >>, 0)

InitExtract ==
    /\ pc = "extract"
    /\ debug_mode = FALSE
    /\ proxy_list = <<>>
    /\ proxy_config = None
    /\ launch_proxy = None
    /\ browser = "open"
    /\ playwright = "started"
    /\ status_code = 200
    /\ screenshot_data = "None"
    /\ page_content \in ExtractPages
    /\ results = <<>>
    /\ ret = NoReturn
    /\ events = <<"launch", "new_context", "new_page", "add_init_script",
                  "goto_base", "sleep", "goto_search", "content">>
    /\ debug_logs = LogsUpToContent
    /\ now = Len(LogsUpToContent)
    /\ added = LogsUpToContent
    /\ html_sample = ""
    /\ df = <<>>
    /\ scored = <<>>
    /\ raw = <<>>

NextExtract ==
    \/ ExtractStep
    \/ Finally

SpecExtract == InitExtract /\ [][NextExtract]_vars

\* the extraction loop has run to its end
Extracted == Has("extract") /\ Last(events) # "raise"

\* the number a text's decimal digits form, read from left to right
RECURSIVE DigitsNumber(_, _)
DigitsNumber(text, acc) ==
    IF text = <<>> THEN acc
    ELSE IF Head(text) \in {"0", "1", "2", "3", "4", "5", "6", "7", "8", "9"}
    THEN DigitsNumber(Tail(text), acc * 10 + DigitValue(Head(text)))
    ELSE DigitsNumber(Tail(text), acc)

HasDigit(text) ==
    \E i \in 1..Len(text) :
        text[i] \in {"0", "1", "2", "3", "4", "5", "6", "7", "8", "9"}

\* candidates with a title, a price with a digit in it and a usable anchor
ValidCandidate(e) ==
    /\ e.has_title
    /\ e.has_price
    /\ HasDigit(e.price)
    /\ \A i \in 1..Len(e.price) : e.price[i] # "^2"
    /\ e.anchor # "nohref"

Matching(page, card) == {i \in 1..Len(page.elems) : page.elems[i].card = card}

\* C9: when the data-testid selector matches nothing and the class-name
\* selector matches N elements, each with a valid title and price, the
\* extraction returns exactly N records.
C9_FallbackSelector ==
    ( /\ Extracted
      /\ Matching(page_content, "testid") = {}
      /\ \A i \in Matching(page_content, "class") :
             ValidCandidate(page_content.elems[i]) )
    => Len(results) = Cardinality(Matching(page_content, "class"))

\* the numbers formed by the digits of the price texts that have a digit,
\* in document order
RECURSIVE PricedNumbers(_)
PricedNumbers(elems) ==
    IF elems = <<>> THEN <<>>
    ELSE (IF Head(elems).has_price /\ HasDigit(Head(elems).price)
          THEN <<DigitsNumber(Head(elems).price, 0)>>
          ELSE <<>>)
         \o PricedNumbers(Tail(elems))

\* a is b with some of its elements left out
RECURSIVE IsSubsequence(_, _)
IsSubsequence(a, b) ==
    IF a = <<>> THEN TRUE
    ELSE IF b = <<>> THEN FALSE
    ELSE IF Head(a) = Head(b) THEN IsSubsequence(Tail(a), Tail(b))
    ELSE IsSubsequence(a, Tail(b))

ResultPrices == [r \in 1..Len(results) |-> results[r].Price]

\* C10 as stated: every record's price is a positive integer, the number its
\* price text's digits form, and a price text without a digit gives no record.
C10_PricePositive ==
    Extracted =>
        /\ \A r \in 1..Len(results) : results[r].Price > 0
        /\ IsSubsequence(ResultPrices, PricedNumbers(page_content.elems))

\* C10 amended: every record's price is a non-negative integer, the number
\* its price text's digits form in their order, and a price text without a
\* digit gives no record (never a record with a defaulted price): the prices
\* of the records are, in document order, numbers of digit-bearing texts.
C10_PriceFromDigits ==
    Extracted =>
        /\ \A r \in 1..Len(results) : results[r].Price \in Nat
        /\ IsSubsequence(ResultPrices, PricedNumbers(page_content.elems))

\* a two-digit price with a separator was converted, beside a candidate
\* whose price text has no digit
C10_Witness ==
    /\ Extracted
    /\ Len(page_content.elems) = 2
    /\ page_content.elems[1].price = <<",", ",">>
    /\ page_content.elems[2].price = <<" ", "7", "0", " ">>
    /\ Len(results) = 1
    /\ results[1].Price = 70


(***************************************************************************)
(* parse_proxy applied to one operator-supplied string                     *)
(***************************************************************************)
MaxProxyLen == 7

ProxyAlphabet == {":", "@", "h", "8"}

ProxyBodies == UNION {[1..n -> ProxyAlphabet] : n \in 0..MaxProxyLen}

\* what stands before and after the body: nothing, surrounding whitespace,
\* a scheme, a scheme separator without a scheme name
ProxyWraps ==
    { <<<<>>, <<>>>>,
      <<<<" ">>, <<" ", "\n">>>>,
      <<HttpPrefix, <<>>>>,
      <<HttpsPrefix, <<>>>>,
      <<SchemeSep, <<>>>> }

ProxyStrings ==
    {wrap[1] \o body \o wrap[2] : wrap \in ProxyWraps, body \in ProxyBodies}

InitProxy ==
    /\ IdleSession
    /\ df = <<>>
    /\ scored = <<>>
    /\ raw \in ProxyStrings

\* line 116: proxy_config = parse_proxy(raw_proxy)
Parse ==
    /\ pc = "idle"
    /\ proxy_config' = parse_proxy(raw)
    /\ pc' = "parsed"
    /\ UNCHANGED <<debug_mode, proxy_list, launch_proxy, browser, playwright,
                   status_code, screenshot_data, page_content, results, ret,
                   events, html_sample, logVars, scoreVars>>

NextProxy == Parse

SpecProxy == InitProxy /\ [][NextProxy]_vars


\* the text without its leading and trailing whitespace
Trimmed(text) ==
    LET solid == {i \in 1..Len(text) : text[i] \notin {" ", "\t", "\n", "\r"}}
        first == CHOOSE i \in solid : \A j \in solid : i <= j
        last == CHOOSE i \in solid : \A j \in solid : j <= i
    IN  IF solid = {} THEN <<>> ELSE SubSeq(text, first, last)

Colons(text) == {i \in 1..Len(text) : text[i] = ":"}

\* the position of the k-th colon of a text
Colon(text, k) ==
    CHOOSE i \in Colons(text) : Cardinality({j \in Colons(text) : j <= i}) = k

\* the text between positions from and to, both excluded
Between(text, from, to) == [i \in 1..(to - from - 1) |-> text[from + i]]

\* C11: a string of exactly four colon-delimited fields (surrounding
\* whitespace ignored) gives the descriptor with server http://<1st>:<2nd>,
\* username the 3rd field and password the 4th, whatever else it looks like.
C11_FourFields ==
    (pc = "parsed" /\ Cardinality(Colons(Trimmed(raw))) = 3) =>
        LET t == Trimmed(raw)
            host == Between(t, 0, Colon(t, 1))
            port == Between(t, Colon(t, 1), Colon(t, 2))
        IN  /\ DOMAIN proxy_config = {"server", "username", "password"}
            /\ proxy_config.server
                   = <<"h", "t", "t", "p", ":", "/", "/">> \o host \o <<":">> \o port
            /\ proxy_config.username = Between(t, Colon(t, 2), Colon(t, 3))
            /\ proxy_config.password = Between(t, Colon(t, 3), Len(t) + 1)

\* the four-field string h:8:h:8 between whitespace was parsed
C11_Witness ==
    /\ pc = "parsed"
    /\ raw = <<" ", "h", ":", "8", ":", "h", ":", "8", " ", "\n">>
    /\ proxy_config.username = <<"h">>
    /\ proxy_config.server = <<"h", "t", "t", "p", ":", "/", "/", "h", ":", "8">>


\* C12: a descriptor carries a username and a password that are both
\* non-empty, or neither of the two.
C12_CredentialsBothOrNeither ==
    (pc = "parsed" /\ proxy_config # None) =>
        \/ /\ "username" \in DOMAIN proxy_config
           /\ "password" \in DOMAIN proxy_config
           /\ proxy_config.username # <<>>
           /\ proxy_config.password # <<>>
        \/ /\ "username" \notin DOMAIN proxy_config
           /\ "password" \notin DOMAIN proxy_config

\* positions where "://" starts in a text
SchemeSepAt(text) ==
    {i \in 1..(Len(text) - 2) :
        text[i] = ":" /\ text[i + 1] = "/" /\ text[i + 2] = "/"}

\* the text after a leading http:// or https://
Unschemed(text) ==
    IF Len(text) >= 8 /\ SubSeq(text, 1, 8) = <<"h", "t", "t", "p", "s", ":", "/", "/">>
    THEN SubSeq(text, 9, Len(text))
    ELSE IF Len(text) >= 7 /\ SubSeq(text, 1, 7) = <<"h", "t", "t", "p", ":", "/", "/">>
    THEN SubSeq(text, 8, Len(text))
    ELSE text

\* user:pass@host:port, every part non-empty, the port decimal
IsUserPassHostPort(r) ==
    \E i, j, k \in 1..Len(r) :
        /\ 1 < i /\ i + 1 < j /\ j + 1 < k /\ k < Len(r)
        /\ r[i] = ":" /\ r[j] = "@" /\ r[k] = ":"
        /\ \A x \in 1..(i - 1) : r[x] # ":"
        /\ \A x \in (i + 1)..(j - 1) : r[x] # "@"
        /\ \A x \in (j + 1)..(k - 1) : r[x] # ":"
        /\ \A x \in (k + 1)..Len(r) :
               r[x] \in {"0", "1", "2", "3", "4", "5", "6", "7", "8", "9"}

\* the three accepted shapes
ShapeFourFields(t) == Cardinality(Colons(t)) = 3
ShapeUserAtHost(t) == IsUserPassHostPort(t) \/ IsUserPassHostPort(Unschemed(t))
ShapeHostPort(t) == Cardinality(Colons(Unschemed(t))) = 1

NoShape(t) == ~ShapeFourFields(t) /\ ~ShapeUserAtHost(t) /\ ~ShapeHostPort(t)

C14_ServerHasScheme ==
    (pc = "parsed" /\ proxy_config # None) =>
        /\ SchemeSepAt(proxy_config.server) # {}
        /\ \A i \in SchemeSepAt(proxy_config.server) : i > 1
        /\ SchemeSepAt(Trimmed(raw)) = {} =>
               /\ Len(proxy_config.server) >= 7
               /\ SubSeq(proxy_config.server, 1, 7)
                      = <<"h", "t", "t", "p", ":", "/", "/">>


\* the positions of the records priced above 100
Survivors(batch) == {i \in 1..Len(batch) : batch[i].Price > 100}

\* the k-th position of a set of positions, in increasing order
Nth(positions, k) ==
    CHOOSE i \in positions : Cardinality({j \in positions : j <= i}) = k

\* the k-th smallest price among the survivors
Ranked(batch, k) ==
    CHOOSE x \in {batch[i].Price : i \in Survivors(batch)} :
        /\ Cardinality({i \in Survivors(batch) : batch[i].Price < x}) < k
        /\ Cardinality({i \in Survivors(batch) : batch[i].Price <= x}) >= k

\* twice the median of the surviving prices
TwiceMedian(batch) ==
    LET n == Cardinality(Survivors(batch))
    IN  Ranked(batch, (n + 1) \div 2) + Ranked(batch, (n + 2) \div 2)

\* the fraction f equals num / den
Equals(f, num, den) == f[2] > 0 /\ f[1] * den = num * f[2]

\* C15: a batch with a record priced above 100 comes back as exactly the
\* records priced above 100, in input order, each with the median of the
\* surviving prices as Market_Median and with profit = median - price; for
\* the prices 1000, 1000, 500 the record priced 500 gets profit 500, ROI 100.
C15_ScoredAgainstSurvivorMedian ==
    (pc = "scored" /\ Survivors(df) # {}) =>
        /\ Len(scored) = Cardinality(Survivors(df))
        /\ \A k \in 1..Len(scored) :
            LET row == df[Nth(Survivors(df), k)]
            IN  /\ \A column \in DOMAIN row : scored[k][column] = row[column]
                /\ Equals(scored[k]["Market_Median"], TwiceMedian(df), 2)
                /\ Equals(scored[k]["Profit_AED"],
                          TwiceMedian(df) - 2 * row.Price, 2)
        /\ Prices(df) = <<1000, 1000, 500>> =>
            /\ scored[3]["Market_Median"] = <<1000, 1>>
            /\ scored[3]["Profit_AED"] = <<500, 1>>
            /\ scored[3]["ROI_%"] = <<100, 1>>

\* the batch 1000, 1000, 500 was scored
C15_Witness ==
    /\ pc = "scored"
    /\ Prices(df) = <<1000, 1000, 500>>
    /\ Len(scored) = 3
    /\ scored[3]["ROI_%"] = <<100, 1>>


Count(e) == Cardinality({i \in 1..Len(events) : events[i] = e})

\* C16: the query URL is navigated at most once in a run, and only after one
\* warm-up navigation that completed without an exception and with a status
\* other than 407; no navigation and no launch is repeated.
C16_OneWarmUpThenOneQuery ==
    /\ Count("launch") <= 1
    /\ Count("goto_base") <= 1
    /\ Count("goto_search") <= 1
    /\ Has("goto_search") =>
        /\ Count("goto_base") = 1
        /\ EventIndex("goto_base") < EventIndex("goto_search")
        /\ events[EventIndex("goto_base") + 1] # "raise"
        /\ ~WarmUpStatus(407)
        /\ \E i \in 1..Len(added) :
               added[i][2] = "Initial Connection Status" /\ added[i][3] # 407

\* a run that navigated to the query URL has ended
C16_Witness ==
    /\ pc = "done"
    /\ Has("goto_search")
    /\ WarmUpStatus(403)
    /\ status_code = 200


\* the numbers of the candidates (cards the selector finds) that have a
\* title, a price element and a digit in the price text, in document order
RECURSIVE CandidateNumbers(_)
CandidateNumbers(elems) ==
    IF elems = <<>> THEN <<>>
    ELSE (IF /\ Head(elems).card = "testid"
             /\ Head(elems).has_title
             /\ Head(elems).has_price
             /\ HasDigit(Head(elems).price)
          THEN <<DigitsNumber(Head(elems).price, 0)>>
          ELSE <<>>)
         \o CandidateNumbers(Tail(elems))

\* C17: the records are exactly one per candidate that has a title element,
\* a price element and a digit in its price text, in document order,
\* whatever failing candidates stand around them.
C17_OnlyFailingCandidatesSkipped ==
    Extracted => ResultPrices = CandidateNumbers(page_content.elems)

\* what a record shows of its candidate (the time stamp left out)
Shown(records) ==
    [r \in 1..Len(records) |->
        <<records[r].Title, records[r].Price, records[r].Link>>]

\* C18: the records a run returns are either none or the whole extraction of
\* the captured markup, and none when a step of the run raised.
C18_AllOrNothing ==
    pc = "done" =>
        /\ \/ ret.records = <<>>
           \/ Shown(ret.records) = Shown(Extract(page_content, 0))
        /\ Has("raise") => ret.records = <<>>

\* the extraction raised on a page that holds valid cards
C18_Witness ==
    /\ pc = "done"
    /\ Len(Extract(page_content, 0)) = 2
    /\ Has("extract")
    /\ Has("raise")
    /\ ret.records = <<>>

QueryStatuses ==
    {added[i][3] : i \in {j \in 1..Len(added) : added[j][2] = "Search Results Status"}}

\* C19: when the query navigation got a response, the returned httpStatus
\* is that response's status, also when a later step failed and when the
\* status is not a success; it is 0 only when no query response came.
C19_StatusOfQueryResponse ==
    pc = "done" =>
        /\ \A status \in QueryStatuses : ret.status = status
        /\ ret.status = 0 => QueryStatuses = {}

\* the query answered 403 and a later step raised
C19_Witness ==
    /\ pc = "done"
    /\ QueryStatuses = {403}
    /\ Has("raise")
    /\ ret.status = 403

\* the columns main reads from the scored frame (lines 270 and 274)
MainColumns == {"ROI_%", "Market_Median"}

\* C20: every non-empty batch main passes to calculate_arbitrage comes back
\* with ROI_% and Market_Median on every record, the batch whose prices
\* are all at or below the spam floor included.
C20_MainColumnsDefined ==
    (pc = "scored" /\ df # <<>>) =>
        /\ scored # <<>>
        /\ \A i \in 1..Len(scored) : MainColumns \subseteq DOMAIN scored[i]

=============================================================================
